---- MODULE Spec2Model ----
(***************************************************************************)
(* A model of mathics/builtin/numpy_utils.py (the dual-backend array       *)
(* kernel) and of the evaluation registry of mathics_django/web/models.py. *)
(*                                                                         *)
(* Both backends of numpy_utils.py define the same names; the operators    *)
(* modelling the branch taken when numpy imports carry the prefix np_, the *)
(* ones modelling the pure-python fallback carry the prefix py_.           *)
(***************************************************************************)
EXTENDS Integers, Sequences, FiniteSets, TLC

(***************************************************************************)
(* Bounds of the model.                                                    *)
(***************************************************************************)
MaxCells == 4      \* scalars held by the array arguments of one call
MaxRank == 2       \* nesting depth of an array argument
MaxVal == 1        \* scalars are drawn from 0..MaxVal
MaxK == 2          \* arrays handed to stack
MaxDepth == 2      \* the depth argument of vectorized is drawn from 0..MaxDepth
MaxOpts == 2       \* options handed to choose
MaxComps == 2      \* components of one option of choose
MaxThreads == 2    \* request threads of the web process
MaxKeys == 2       \* session keys
MaxEvals == 3      \* Evaluation objects created in one run

Vals == 0..MaxVal

(***************************************************************************)
(* Python values.  A nested python list is a tree: Sc(v) is the number v,  *)
(* Li(s) the list whose elements are the trees of the sequence s.          *)
(***************************************************************************)
Sc(v) == [isList |-> FALSE, val |-> v, items |-> <<>>]
Li(s) == [isList |-> TRUE, val |-> 0, items |-> s]

Value(v) == [kind |-> "value", val |-> v]
Raise(e) == [kind |-> "error", err |-> e]

RECURSIVE Prod(_)
Prod(s) == IF s = <<>> THEN 1 ELSE Head(s) * Prod(Tail(s))

RECURSIVE ConcatAll(_)
ConcatAll(ss) == IF ss = <<>> THEN <<>> ELSE Head(ss) \o ConcatAll(Tail(ss))

Last(s) == s[Len(s)]
Front(s) == SubSeq(s, 1, Len(s) - 1)

(***************************************************************************)
(* The shapes a rectangular nested list can have: only its innermost axis  *)
(* can be empty.                                                           *)
(***************************************************************************)
RECURSIVE ShapesOfRank(_)
ShapesOfRank(r) ==
    IF r = 0 THEN {<<>>}
    ELSE {<<n>> \o s : n \in 1..MaxCells, s \in ShapesOfRank(r - 1)}
         \cup (IF r = 1 THEN {<<0>>} ELSE {})

Shapes == {s \in UNION {ShapesOfRank(r) : r \in 0..MaxRank} : Prod(s) <= MaxCells}

RECURSIVE ListsOfShape(_)
ListsOfShape(s) ==
    IF s = <<>> THEN {Sc(v) : v \in Vals}
    ELSE {Li(t) : t \in [1..Head(s) -> ListsOfShape(Tail(s))]}

(***************************************************************************)
(* numpy arrays: a shape and the elements in row-major order.              *)
(***************************************************************************)
NdArray(shape, data) == [shape |-> shape, data |-> data]

RECURSIVE ShapeOf(_)
ShapeOf(a) ==
    IF ~a.isList THEN <<>>
    ELSE IF a.items = <<>> THEN <<0>>
    ELSE <<Len(a.items)>> \o ShapeOf(a.items[1])

RECURSIVE Flatten(_)
Flatten(a) ==
    IF ~a.isList THEN <<a.val>>
    ELSE ConcatAll([i \in 1..Len(a.items) |-> Flatten(a.items[i])])

\* numpy.array(a) of a rectangular nested list (or tuple) of numbers
np_array(a) == NdArray(ShapeOf(a), Flatten(a))

\* ndarray.tolist()
RECURSIVE ToList(_)
ToList(x) ==
    IF x.shape = <<>> THEN Sc(x.data[1])
    ELSE LET sub == Tail(x.shape)
             sz == Prod(sub)
         IN Li([i \in 1..Head(x.shape) |->
                  ToList(NdArray(sub, SubSeq(x.data, (i - 1) * sz + 1, i * sz)))])

(***************************************************************************)
(* stack / unstack, numpy backend                                          *)
(***************************************************************************)
\* numpy.stack(a, axis=-1): the k sub-arrays of a along its first axis are
\* joined along a new innermost axis.
np_stack_last(a) ==
    LET k == Head(a.shape)
        sub == Tail(a.shape)
        sz == Prod(sub)
    IN NdArray(sub \o <<k>>,
               [q \in 1..(sz * k) |->
                  LET p == ((q - 1) \div k) + 1
                      j == ((q - 1) % k) + 1
                  IN a.data[(j - 1) * sz + p]])

np_stack(args) == np_stack_last(np_array(Li(args)))

\* numpy.split(a, m, axis=-1): m arrays whose innermost axis has size 1
np_split_last(a, m) ==
    LET outer == Front(a.shape)
        sz == Prod(outer)
    IN [j \in 1..m |-> NdArray(outer \o <<1>>, [p \in 1..sz |-> a.data[(p - 1) * m + j]])]

\* numpy.array of a list of equal-shaped arrays
np_array_of(parts) ==
    NdArray(<<Len(parts)>> \o parts[1].shape,
            ConcatAll([j \in 1..Len(parts) |-> parts[j].data]))

np_unstack(a) ==
    LET m == Last(a.shape) IN
    IF m = 0 THEN Raise("ValueError")      \* numpy.split refuses 0 sections
    ELSE LET b == np_array_of(np_split_last(a, m))
         IN Value(IF Last(b.shape) = 1 THEN NdArray(Front(b.shape), b.data) ELSE b)

(***************************************************************************)
(* stack / unstack, fallback backend                                       *)
(***************************************************************************)
\* _is_bottom, of the sequence of elements of a list or tuple
py_is_bottom(s) == \E i \in 1..Len(s) : ~s[i].isList

RECURSIVE py_stack(_)
py_stack(args) ==
    IF py_is_bottom(args) THEN Li(args)
    ELSE Li([i \in 1..Len(args[1].items) |->
               py_stack([j \in 1..Len(args) |-> args[j].items[i]])])

SeqMax(s) == CHOOSE m \in {s[i] : i \in 1..Len(s)} : \A i \in 1..Len(s) : s[i] <= m

\* unstack.length; -1 stands for the ValueError of max() of an empty sequence
RECURSIVE py_length(_)
py_length(b) ==
    IF py_is_bottom(b.items) THEN Len(b.items)
    ELSE IF b.items = <<>> THEN -1
    ELSE LET ls == [i \in 1..Len(b.items) |-> py_length(b.items[i])]
         IN IF \E i \in 1..Len(ls) : ls[i] = -1 THEN -1 ELSE SeqMax(ls)

\* unstack.split
RECURSIVE py_split(_, _)
py_split(b, i) ==
    IF ~py_is_bottom(b.items)
    THEN Li([j \in 1..Len(b.items) |-> py_split(b.items[j], i)])
    ELSE b.items[i]

py_unstack(a) ==
    IF a.items = <<>> THEN Value(Li(<<>>))
    ELSE LET n == py_length(a)
         IN IF n = -1 THEN Raise("ValueError")
            ELSE Value(Li([i \in 1..n |-> py_split(a, i)]))

(***************************************************************************)
(* The functions callers hand to the kernel.  An elementwise function is   *)
(* named by what it does to one number; conditional's _eval closes over    *)
(* cond, t and f.                                                          *)
(***************************************************************************)
ElemFns == {"inc", "dbl", "neg"}

Cond(c, x) == x > c.thr

RECURSIVE ApplyFn(_, _)
ApplyFn(fn, x) ==
    CASE fn.k = "inc" -> x + 1
      [] fn.k = "dbl" -> 2 * x
      [] fn.k = "neg" -> 0 - x
      [] fn.k = "eval" -> IF Cond(fn.cond, x) THEN ApplyFn(fn.t, x) ELSE ApplyFn(fn.f, x)

Fn(name) == [k |-> name]

\* an elementwise function called with a python value (a number or a list)
RECURSIVE CallOnList(_, _)
CallOnList(fn, a) ==
    IF a.isList THEN Li([i \in 1..Len(a.items) |-> CallOnList(fn, a.items[i])])
    ELSE Sc(ApplyFn(fn, a.val))

\* an elementwise function called with a numpy array
CallOnArray(fn, x) == NdArray(x.shape, [p \in 1..Len(x.data) |-> ApplyFn(fn, x.data[p])])

(***************************************************************************)
(* vectorized.  Both operators return the value and the calls made to f,   *)
(* in order.                                                               *)
(***************************************************************************)
np_vectorized(f, a, depth) ==
    LET x == np_array(a) IN
    IF Len(x.shape) = 1
    THEN LET w == NdArray(<<1>> \o x.shape, x.data)      \* array([a])
             r == CallOnArray(f, w)
         IN [val |-> NdArray(Tail(r.shape), SubSeq(r.data, 1, Prod(Tail(r.shape)))),
             calls |-> <<w>>]
    ELSE [val |-> CallOnArray(f, x), calls |-> <<x>>]

RECURSIVE py_vectorized_swapped(_, _, _)
py_vectorized_swapped(f, a, depth) ==
    IF py_is_bottom(a.items)
    THEN IF depth # 0
         THEN [val |-> Li([i \in 1..Len(a.items) |-> CallOnList(f, a.items[i])]),
               calls |-> a.items]
         ELSE [val |-> CallOnList(f, a), calls |-> <<a>>]
    ELSE LET rs == [i \in 1..Len(a.items) |-> py_vectorized_swapped(f, a.items[i], depth)]
         IN [val |-> Li([i \in 1..Len(rs) |-> rs[i].val]),
             calls |-> ConcatAll([i \in 1..Len(rs) |-> rs[i].calls])]

RECURSIVE py_vectorized(_, _, _)
py_vectorized(f, a, depth) ==
    IF py_is_bottom(a.items)
    THEN IF depth = 0
         THEN [val |-> Li([i \in 1..Len(a.items) |-> CallOnList(f, a.items[i])]),
               calls |-> a.items]
         ELSE [val |-> CallOnList(f, a), calls |-> <<a>>]
    ELSE LET rs == [i \in 1..Len(a.items) |-> py_vectorized(f, a.items[i], depth)]
         IN [val |-> Li([i \in 1..Len(rs) |-> rs[i].val]),
             calls |-> ConcatAll([i \in 1..Len(rs) |-> rs[i].calls])]

(***************************************************************************)
(* conditional.  The heap holds the array objects; an operator takes the   *)
(* heap and the caller's reference and returns the heap after the call and *)
(* the reference returned.                                                 *)
(***************************************************************************)
\* array(a)[:] : numpy.array copies its argument; the slice is a view of the copy
np_alias(h, r) == [heap |-> h, ref |-> r]

np_copy(h, r) == [heap |-> Append(h, h[r]), ref |-> Len(h) + 1]

RECURSIVE TruePositions(_, _)
TruePositions(mask, from) ==
    IF from > Len(mask) THEN <<>>
    ELSE (IF mask[from] THEN <<from>> ELSE <<>>) \o TruePositions(mask, from + 1)

\* b[mask]
np_select(data, mask) ==
    LET tp == TruePositions(mask, 1) IN [k \in 1..Len(tp) |-> data[tp[k]]]

\* b[mask] = vals
np_put(data, mask, vals) ==
    [p \in 1..Len(data) |->
        IF mask[p] THEN vals[Cardinality({q \in 1..p : mask[q]})] ELSE data[p]]

MapSeq(fn, s) == [k \in 1..Len(s) |-> ApplyFn(fn, s[k])]

np_invert(mask) == [p \in 1..Len(mask) |-> ~mask[p]]

np_conditional(h, a, cond, t, f) ==
    LET cp == np_copy(h, a)
        b == cp.ref
        mask == [p \in 1..Len(h[a].data) |-> Cond(cond, h[a].data[p])]
        h1 == [cp.heap EXCEPT ![b].data = np_put(@, mask, MapSeq(t, np_select(@, mask)))]
        h2 == [h1 EXCEPT ![b].data =
                  np_put(@, np_invert(mask), MapSeq(f, np_select(@, np_invert(mask))))]
    IN [heap |-> h2, ref |-> b]

\* _apply: a new list of the results
py_apply(fn, a) == CallOnList(fn, a)

py_conditional(h, a, cond, t, f) ==
    [heap |-> Append(h, py_apply([k |-> "eval", cond |-> cond, t |-> t, f |-> f], h[a])),
     ref |-> Len(h) + 1]

(***************************************************************************)
(* compose.  The arguments are the (mask, v) pairs in order, and whether a *)
(* mask without a value-function follows them (an odd argument list).  A   *)
(* value-function v is called with a selector s and computes its values    *)
(* from s(x), x the array it closes over: v.k names what it does to each   *)
(* selected element.  Under the fallback the masks and x are scalars, held *)
(* here as arrays of one element.                                          *)
(***************************************************************************)
CallValueFn(v, selected) == MapSeq(v, selected)

Reverse(s) == [i \in 1..Len(s) |-> s[Len(s) + 1 - i]]

np_rule_order_forward(pairs) == pairs

\* reversed([a[i:i + 2] for i in range(0, len(a), 2)])
np_rule_order(pairs) == Reverse(pairs)

RECURSIVE np_apply_rules(_, _, _)
np_apply_rules(b, rules, x) ==
    IF rules = <<>> THEN b
    ELSE np_apply_rules(
            np_put(b, Head(rules).mask, CallValueFn(Head(rules).v, np_select(x, Head(rules).mask))),
            Tail(rules), x)

\* uninit: what the memory numpy.ndarray(shape) hands out happens to hold
np_compose(pairs, dangling, x, uninit) ==
    IF pairs = <<>> \/ dangling THEN Raise("AssertionError")
    ELSE Value(np_apply_rules(uninit, np_rule_order(pairs), x))

RECURSIVE py_compose_scan(_, _)
py_compose_scan(pairs, x) ==
    IF pairs = <<>> THEN Raise("ValueError")
    ELSE IF Head(pairs).mask[1] THEN Value(CallValueFn(Head(pairs).v, x))
    ELSE py_compose_scan(Tail(pairs), x)

py_compose(pairs, dangling, x) ==
    IF pairs = <<>> \/ dangling THEN Raise("AssertionError")
    ELSE py_compose_scan(pairs, x)

(***************************************************************************)
(* choose.  options is the sequence of options, each the sequence of its   *)
(* components; i is a number or a nested list of numbers.                  *)
(***************************************************************************)
Uint8Range == 256

RECURSIVE py_choose_descend_first(_, _)
py_choose_descend_first(i, options) ==
    IF ~i.isList THEN options[1]
    ELSE Li([k \in 1..Len(i.items) |->
               py_choose_descend_first(i.items[k],
                                       [o \in 1..Len(options) |-> options[o].items[k]])])

RECURSIVE py_choose_descend(_, _)
py_choose_descend(i, options) ==
    IF ~i.isList THEN options[i.val + 1]
    ELSE Li([k \in 1..Len(i.items) |->
               py_choose_descend(i.items[k], [o \in 1..Len(options) |-> options[o].items[k]])])

\* columns = [[o[d] for o in options] for d in range(dim)]
Columns(options) ==
    [d \in 1..Len(options[1]) |-> [o \in 1..Len(options) |-> options[o][d]]]

ColumnsRaise(options) == \E o \in 1..Len(options) : Len(options[o]) < Len(options[1])

py_choose(i, options) ==
    IF options = <<>> THEN Raise("AssertionError")
    ELSE IF ColumnsRaise(options) THEN Raise("IndexError")
    ELSE Value([d \in 1..Len(options[1]) |-> py_choose_descend(i, Columns(options)[d])])

\* numpy.choose(i_int, column)
np_choose_column(i_int, column) ==
    NdArray(i_int.shape, [p \in 1..Len(i_int.data) |-> column[i_int.data[p] + 1].data[p]])

np_choose(i, options) ==
    IF options = <<>> THEN Raise("AssertionError")
    ELSE IF ColumnsRaise(options) THEN Raise("IndexError")
    ELSE IF ~i.isList
         THEN Value([d \in 1..Len(options[1]) |-> Columns(options)[d][i.val + 1]])
    ELSE IF ~(Len(options) < Uint8Range) THEN Raise("AssertionError")
    ELSE LET a == np_array(i)
             i_int == NdArray(a.shape, [p \in 1..Len(a.data) |-> a.data[p] % Uint8Range])
         IN Value([d \in 1..Len(options[1]) |-> np_choose_column(i_int, Columns(options)[d])])

(***************************************************************************)
(* The evaluation registry of the web layer.  None is 0; the Evaluation    *)
(* objects are numbered from 1 in the order of their construction.         *)
(***************************************************************************)
None == 0
Threads == 1..MaxThreads
Keys == 1..MaxKeys

(***************************************************************************)
(* State                                                                   *)
(***************************************************************************)
VARIABLES
    numpy,        \* _numpy: which backend the import probe selected
    phase,        \* "ready" before the kernel call, "returned" after it
    call,         \* the kernel call made: its name and arguments
    ret,          \* what the call returned or raised
    fcalls,       \* the arguments of the calls made to the caller's function
    heap,         \* the array objects of a call that takes a reference
    evaluations,  \* _evaluations: session key -> Evaluation, None when absent
    pc,           \* where each thread is in get_session_evaluation
    key,          \* session.session_key of each thread's call
    evaluation,   \* the local variable evaluation of each thread's call
    created,      \* Evaluation objects constructed so far
    stale,        \* the session of the thread's call was torn down during the call
    returned,     \* per key, what the calls made since its last teardown returned
    ended,        \* per key: torn down, and no call for it started since
    lastEnd       \* the last run of end_session_evaluation

kernelVars == <<numpy, phase, call, ret, fcalls, heap>>
webVars == <<evaluations, pc, key, evaluation, created, stale, returned, ended, lastEnd>>
vars == <<kernelVars, webVars>>

NoCall == [op |-> "none"]

Init ==
    /\ numpy \in BOOLEAN
    /\ phase = "ready"
    /\ call = NoCall
    /\ ret = Value(0)
    /\ fcalls = <<>>
    /\ heap = <<>>
    /\ evaluations = [k \in Keys |-> None]
    /\ pc = [t \in Threads |-> "idle"]
    /\ key = [t \in Threads |-> 1]
    /\ evaluation = [t \in Threads |-> None]
    /\ created = 0
    /\ stale = [t \in Threads |-> FALSE]
    /\ returned = [k \in Keys |-> {}]
    /\ ended = [k \in Keys |-> FALSE]
    /\ lastEnd = [key |-> 0, raised |-> FALSE, othersChanged |-> FALSE]

\* the nested lists callers pass as arrays
Lists == UNION {ListsOfShape(s) : s \in {t \in Shapes : t # <<>>}}

\* the argument tuples of stack: k arrays of one shape
StackArgs ==
    UNION {UNION {[1..k -> ListsOfShape(s)] : s \in {t \in Shapes : k * Prod(t) <= MaxCells}} :
           k \in 1..MaxK}

\* unstack(stack(*a))
RoundTrip ==
    /\ phase = "ready"
    /\ \E a \in StackArgs :
         /\ call' = [op |-> "roundtrip", a |-> a]
         /\ ret' = IF numpy THEN np_unstack(np_stack(a))
                   ELSE py_unstack(py_stack(a))
    /\ phase' = "returned"
    /\ UNCHANGED <<numpy, fcalls, heap, webVars>>

\* vectorized(f, a, depth)
Vectorized ==
    /\ phase = "ready"
    /\ \E f \in {"inc", "dbl"}, a \in Lists, depth \in 0..MaxDepth :
         LET r == IF numpy THEN np_vectorized(Fn(f), a, depth)
                  ELSE py_vectorized(Fn(f), a, depth)
         IN /\ call' = [op |-> "vectorized", f |-> Fn(f), a |-> a, depth |-> depth]
            /\ ret' = Value(r.val)
            /\ fcalls' = r.calls
    /\ phase' = "returned"
    /\ UNCHANGED <<numpy, heap, webVars>>

\* conditional(a, cond, t, f), a the caller's array object
Conditional ==
    /\ phase = "ready"
    /\ \E a \in Lists, thr \in (0 - 1)..MaxVal, t \in {"inc", "dbl"}, f \in {"neg", "inc"} :
         LET a0 == IF numpy THEN np_array(a) ELSE a
             r == IF numpy THEN np_conditional(<<a0>>, 1, [thr |-> thr], Fn(t), Fn(f))
                  ELSE py_conditional(<<a0>>, 1, [thr |-> thr], Fn(t), Fn(f))
         IN /\ call' = [op |-> "conditional", a |-> 1, before |-> a0,
                        cond |-> [thr |-> thr], t |-> Fn(t), f |-> Fn(f)]
            /\ ret' = Value(r.ref)
            /\ heap' = r.heap
    /\ phase' = "returned"
    /\ UNCHANGED <<numpy, fcalls, webVars>>

\* the data array the value-functions of compose close over
Ramp(n) == [p \in 1..n |-> 10 * p]

\* stand-ins for what uninitialised memory can hold
Uninit == {0, 7}

ComposePairs(n, m) == [1..m -> [mask : [1..n -> BOOLEAN], v : {Fn("inc"), Fn("dbl")}]]

\* compose(mask0, v0, mask1, v1, ...)
Compose ==
    /\ phase = "ready"
    /\ \E n \in 1..(IF numpy THEN MaxCells ELSE 1) :
       \E m \in 0..(MaxCells \div n) :
       \E pairs \in ComposePairs(n, m), dangling \in BOOLEAN,
          uninit \in (IF numpy THEN [1..n -> Uninit] ELSE {<<>>}) :
         /\ call' = [op |-> "compose", n |-> n, pairs |-> pairs, dangling |-> dangling,
                     x |-> Ramp(n)]
         /\ ret' = IF numpy THEN np_compose(pairs, dangling, Ramp(n), uninit)
                   ELSE py_compose(pairs, dangling, Ramp(n))
    /\ phase' = "returned"
    /\ UNCHANGED <<numpy, fcalls, heap, webVars>>

\* component d of option o, of the given shape: its p-th element is 100*o + 10*d + p
Component(o, d, shape) ==
    LET x == NdArray(shape, [p \in 1..Prod(shape) |-> 100 * o + 10 * d + p])
    IN IF numpy THEN x ELSE ToList(x)

RECURSIVE IndexLists(_, _)
IndexLists(s, n) ==
    IF s = <<>> THEN {Sc(v) : v \in 0..(n - 1)}
    ELSE {Li(t) : t \in [1..Head(s) -> IndexLists(Tail(s), n)]}

\* the index arguments of choose for n options
Indices(n) ==
    IF n = 0 THEN {Sc(0)}
    ELSE UNION {IndexLists(s, n) : s \in {t \in Shapes : n * Prod(t) <= MaxCells}}

\* choose(i, *options)
Choose ==
    /\ phase = "ready"
    /\ \E n \in 0..MaxOpts :
       \E dims \in [1..n -> 0..MaxComps], i \in Indices(n) :
       \E shape \in (IF i.isList THEN {ShapeOf(i)} ELSE {<<>>, <<2>>}) :
         LET options == [o \in 1..n |-> [d \in 1..dims[o] |-> Component(o, d, shape)]]
         IN /\ call' = [op |-> "choose", i |-> i, options |-> options, shape |-> shape]
            /\ ret' = IF numpy THEN np_choose(i, options) ELSE py_choose(i, options)
    /\ phase' = "returned"
    /\ UNCHANGED <<numpy, fcalls, heap, webVars>>

Next == RoundTrip \/ Vectorized \/ Conditional \/ Compose \/ Choose

Spec == Init /\ [][Next]_vars

(***************************************************************************)
(* get_session_evaluation and end_session_evaluation.  The threads of the  *)
(* web process interleave between the statements of                        *)
(* get_session_evaluation; a dictionary read, write or delete is one step. *)
(***************************************************************************)
\* evaluation = _evaluations.get(session.session_key); if evaluation is None
GetRead(t, k) ==
    /\ pc[t] = "idle"
    /\ evaluation' = [evaluation EXCEPT ![t] = evaluations[k]]
    /\ key' = [key EXCEPT ![t] = k]
    /\ pc' = [pc EXCEPT ![t] = IF evaluations[k] = None THEN "construct" ELSE "return"]
    /\ stale' = [stale EXCEPT ![t] = FALSE]
    /\ ended' = [ended EXCEPT ![k] = FALSE]
    /\ UNCHANGED <<kernelVars, evaluations, created, returned, lastEnd>>

\* definitions = Definitions(add_builtin=True); evaluation = Evaluation(...)
GetConstruct(t) ==
    /\ pc[t] = "construct"
    /\ created < MaxEvals
    /\ created' = created + 1
    /\ evaluation' = [evaluation EXCEPT ![t] = created + 1]
    /\ pc' = [pc EXCEPT ![t] = "register"]
    /\ UNCHANGED <<kernelVars, evaluations, key, stale, returned, ended, lastEnd>>

\* _evaluations[session.session_key] = evaluation
GetRegister(t) ==
    /\ pc[t] = "register"
    /\ evaluations' = [evaluations EXCEPT ![key[t]] = evaluation[t]]
    /\ pc' = [pc EXCEPT ![t] = "return"]
    /\ UNCHANGED <<kernelVars, key, evaluation, created, stale, returned, ended, lastEnd>>

\* (format_output, LoadModule;) return evaluation
GetReturn(t) ==
    /\ pc[t] = "return"
    /\ returned' = IF stale[t] THEN returned
                   ELSE [returned EXCEPT ![key[t]] = @ \cup {evaluation[t]}]
    /\ pc' = [pc EXCEPT ![t] = "idle"]
    /\ UNCHANGED <<kernelVars, evaluations, key, evaluation, created, stale, ended, lastEnd>>

\* what del _evaluations[session_key] leaves of the registry
DelEntry(reg, k) == [reg EXCEPT ![k] = None]

\* end_session_evaluation, run by the pre_delete signal of the Session with key k
EndSession(k) ==
    IF evaluations[k] = None
    THEN \* del raises KeyError
         /\ lastEnd' = [key |-> k, raised |-> TRUE, othersChanged |-> FALSE]
         /\ UNCHANGED <<kernelVars, evaluations, pc, key, evaluation, created, stale,
                        returned, ended>>
    ELSE /\ evaluations' = DelEntry(evaluations, k)
         /\ lastEnd' = [key |-> k, raised |-> FALSE,
                        othersChanged |-> \E j \in Keys \ {k} : evaluations'[j] # evaluations[j]]
         /\ ended' = [ended EXCEPT ![k] = TRUE]
         /\ returned' = [returned EXCEPT ![k] = {}]
         /\ stale' = [t \in Threads |-> stale[t] \/ (pc[t] # "idle" /\ key[t] = k)]
         /\ UNCHANGED <<kernelVars, pc, key, evaluation, created>>

NextWeb ==
    \/ \E t \in Threads, k \in Keys : GetRead(t, k)
    \/ \E t \in Threads : GetConstruct(t)
    \/ \E t \in Threads : GetRegister(t)
    \/ \E t \in Threads : GetReturn(t)
    \/ \E k \in Keys : EndSession(k)

SpecWeb == Init /\ [][NextWeb]_vars

(***************************************************************************)
(* C2: unstack(stack(a0, ..., ak-1)) is the sequence [a0, ..., ak-1].       *)
(***************************************************************************)
C2_RoundTrip ==
    call.op = "roundtrip" =>
        /\ ret.kind = "value"
        /\ (IF numpy THEN ToList(ret.val) ELSE ret.val) = Li(call.a)

(***************************************************************************)
(* What the depth contract of vectorized asks f to be called with: the     *)
(* scalars of a in order, or its innermost rows in order.                  *)
(***************************************************************************)
Leaves(a) == [i \in 1..Len(Flatten(a)) |-> Sc(Flatten(a)[i])]

Rows(a) ==
    LET x == np_array(a)
        m == Last(x.shape)
    IN [r \in 1..Prod(Front(x.shape)) |->
          Li([c \in 1..m |-> Sc(x.data[(r - 1) * m + c])])]

NonEmptyRows(a) == IF Last(ShapeOf(a)) = 0 THEN <<>> ELSE Rows(a)

BackendsAgree(c) ==
    ToList(np_vectorized(c.f, c.a, c.depth).val) = py_vectorized(c.f, c.a, c.depth).val

(***************************************************************************)
(* C3 as stated: under either backend f is called once per scalar at depth *)
(* 0 and once per innermost row at depth >= 1, and the backends return the *)
(* same result.                                                            *)
(***************************************************************************)
C3_DepthContractBothBackends ==
    call.op = "vectorized" =>
        /\ [i \in 1..Len(fcalls) |-> IF numpy THEN ToList(fcalls[i]) ELSE fcalls[i]]
              = (IF call.depth = 0 THEN Leaves(call.a) ELSE Rows(call.a))
        /\ BackendsAgree(call)

(***************************************************************************)
(* C3 amended: the fallback calls f once per scalar at depth 0 and once    *)
(* per non-empty innermost row at depth >= 1; the numpy backend ignores    *)
(* depth and calls f exactly once, with the whole array (a flat array      *)
(* wrapped as the single row of a two-dimensional one); for an elementwise *)
(* f the two backends return the same result.                              *)
(***************************************************************************)
C3_DepthContract ==
    call.op = "vectorized" =>
        /\ ~numpy => fcalls = (IF call.depth = 0 THEN Leaves(call.a) ELSE NonEmptyRows(call.a))
        /\ numpy => fcalls = <<IF Len(ShapeOf(call.a)) = 1 THEN np_array(Li(<<call.a>>))
                                ELSE np_array(call.a)>>
        /\ BackendsAgree(call)
        /\ ret.val = (IF numpy THEN np_vectorized(call.f, call.a, call.depth).val
                      ELSE py_vectorized(call.f, call.a, call.depth).val)

C3_Witness ==
    /\ call.op = "vectorized"
    /\ numpy
    /\ call.depth = 0
    /\ ShapeOf(call.a) = <<3>>
    /\ Len(fcalls) = 1

(***************************************************************************)
(* C7: conditional leaves the caller's array as it was and returns a new   *)
(* array of the same shape, holding t(x) where cond(x) and f(x) elsewhere. *)
(***************************************************************************)
AsArray(obj) == IF numpy THEN obj ELSE np_array(obj)

C7_ConditionalPure ==
    call.op = "conditional" =>
        LET before == AsArray(call.before)
            result == AsArray(heap[ret.val])
        IN /\ heap[call.a] = call.before
           /\ ret.val # call.a
           /\ result.shape = before.shape
           /\ Len(result.data) = Len(before.data)
           /\ \A p \in 1..Len(before.data) :
                 result.data[p] = IF before.data[p] > call.cond.thr
                                  THEN ApplyFn(call.t, before.data[p])
                                  ELSE ApplyFn(call.f, before.data[p])

C7_Witness ==
    /\ call.op = "conditional"
    /\ numpy
    /\ \E p, q \in 1..Len(call.before.data) :
          /\ call.before.data[p] > call.cond.thr
          /\ ~(call.before.data[q] > call.cond.thr)
          /\ heap[ret.val].data[p] # call.before.data[p]
          /\ heap[ret.val].data[q] # call.before.data[q]

(***************************************************************************)
(* compose: the pairs whose mask is true at element p, in listed order.    *)
(***************************************************************************)
Matching(p) == {j \in 1..Len(call.pairs) : call.pairs[j].mask[p]}

First(S) == CHOOSE j \in S : \A l \in S : j <= l

WellFormed == call.pairs # <<>> /\ ~call.dangling

(***************************************************************************)
(* C1: where more than one mask of compose is true, the output is the      *)
(* value of the value-function of the earliest such pair.                  *)
(***************************************************************************)
C1_ComposePrecedence ==
    (call.op = "compose" /\ WellFormed) =>
        \A p \in 1..call.n :
            Cardinality(Matching(p)) > 1 =>
                /\ ret.kind = "value"
                /\ ret.val[p] = ApplyFn(call.pairs[First(Matching(p))].v, call.x[p])

C1_Witness ==
    /\ call.op = "compose"
    /\ numpy
    /\ WellFormed
    /\ \E p \in 1..call.n :
          /\ Matching(p) = {1, 2}
          /\ call.pairs[1].v # call.pairs[2].v
          /\ ret.val[p] = ApplyFn(call.pairs[1].v, call.x[p])
          /\ ret.val[p] # ApplyFn(call.pairs[2].v, call.x[p])

(***************************************************************************)
(* C4: compose with a well-formed pair list raises when no mask is true at *)
(* some element.                                                           *)
(***************************************************************************)
C4_ComposeNoMatchRaises ==
    (call.op = "compose" /\ WellFormed /\ \E p \in 1..call.n : Matching(p) = {}) =>
        ret.kind = "error"

(***************************************************************************)
(* C5: for options of equal dimension, choose returns for every component  *)
(* d and position p the element at p of component d of option i[p] (of     *)
(* option i when i is a number).                                           *)
(***************************************************************************)
EqualDims ==
    /\ call.options # <<>>
    /\ \A o \in 1..Len(call.options) : Len(call.options[o]) = Len(call.options[1])

IndexAt(p) == IF call.i.isList THEN Flatten(call.i)[p] ELSE call.i.val

C5_ChooseCorrect ==
    (call.op = "choose" /\ EqualDims) =>
        /\ ret.kind = "value"
        /\ Len(ret.val) = Len(call.options[1])
        /\ \A d \in 1..Len(call.options[1]) :
              LET got == AsArray(ret.val[d])
              IN /\ got.shape = call.shape
                 /\ Len(got.data) = Prod(call.shape)
                 /\ \A p \in 1..Prod(call.shape) :
                       got.data[p] = AsArray(call.options[IndexAt(p) + 1][d]).data[p]

C5_Witness ==
    /\ call.op = "choose"
    /\ EqualDims
    /\ Len(call.options) = 2
    /\ Len(call.options[1]) >= 1
    /\ call.i.isList
    /\ \E p, q \in 1..Prod(call.shape) :
          /\ IndexAt(p) = 0
          /\ IndexAt(q) = 1
          /\ AsArray(ret.val[1]).data[p] = 100 + 10 + p
          /\ AsArray(ret.val[1]).data[q] = 200 + 10 + q

(***************************************************************************)
(* C6: choose raises when options is empty or the options do not all have  *)
(* the dimension of options[0].                                            *)
(***************************************************************************)
C6_ChooseRejectsMismatch ==
    (call.op = "choose" /\ ~EqualDims) => ret.kind = "error"

(***************************************************************************)
(* C8: the calls of get_session_evaluation made for a key since its last   *)
(* teardown all returned the evaluation registered for the key.            *)
(***************************************************************************)
C8_OneEvaluationPerKey ==
    \A k \in Keys : returned[k] \subseteq {evaluations[k]}

(***************************************************************************)
(* C9: once a session is torn down, and until a later call of              *)
(* get_session_evaluation for its key starts, the registry holds no entry  *)
(* for the key.                                                            *)
(***************************************************************************)
C9_TeardownDeletes ==
    \A k \in Keys : ended[k] => evaluations[k] = None

(***************************************************************************)
(* C10: end_session_evaluation never raises, and leaves the entries of     *)
(* the other keys as they were.                                            *)
(***************************************************************************)
C10_EndNeverRaises ==
    lastEnd.key # 0 => (~lastEnd.raised /\ ~lastEnd.othersChanged)
====
